---- MODULE Spec2Model ----
(***************************************************************************)
(* DocBot front end: the HTTP client of frontend/src/services/api.ts.      *)
(*                                                                         *)
(*   SpecStream  one call of sendMessageStream: fetch, the read() loop     *)
(*               over the response body, the per-chunk line parser and     *)
(*               the finally block that releases the reader.               *)
(*   SpecApi     the axios client with its two interceptors, the           *)
(*               ApiService methods and the access_token entry of local    *)
(*               storage, with several requests in flight.                 *)
(*                                                                         *)
(* Text is modelled as a sequence of one-character strings.                *)
(***************************************************************************)
EXTENDS Integers, Sequences, FiniteSets, Bags, TLC

VARIABLES
    \* ---- sendMessageStream ----
    pc,            \* position of the call: start, read, lines, finally, resolved, rejected
    status,        \* HTTP status of the response fetch resolved with (0: none yet)
    body,          \* all the characters the response body will deliver
    pos,           \* number of body characters already handed out by read()
    lines,         \* the lines of the current chunk the for loop has not visited yet
    readerLocked,  \* the reader holds the lock of response.body
    acquired,      \* getReader() has been called in this call
    exit,          \* how the try block was left (or why the call ended before it)
    forwarded,     \* the tokens onMessage has been invoked with, in order
    raw,           \* for each onMessage invocation, the chunk line it was parsed from
    reads,         \* number of read() calls issued
    query,         \* argument query of sendMessageStream
    imageFile,     \* argument imageFile: a File, null or undefined
    requests,      \* the HTTP requests the call has handed to fetch, in order
    \* ---- axios client / ApiService ----
    token,         \* localStorage["access_token"], Null when the key is absent
    inflight,      \* bag of the requests sent and not yet answered
    last,          \* the most recently completed ApiService call
    \* ---- DashboardPage ----
    route,         \* the page the router shows
    user,          \* state user: Null or the full_name of the loaded user
    loading,       \* state loading
    editing,       \* state editing
    fullName,      \* state fullName
    \* ---- WebSocketChat ----
    ws,            \* field ws: 0 for null, else the number of the socket
    sockets,       \* every WebSocket created so far: readyState, close() calls
    callbacks,     \* the callbacks connect() stored in the fields on...
    transmitted,   \* what WebSocket.send has been given: <<socket, message>>
    wsLog,         \* the callbacks invoked so far: <<callback, argument>>
    wsCalls,       \* number of calls of connect, sendMessage and disconnect
    \* ---- ChatBox ----
    messages,      \* state messages: records id, text, isBot, image
    inputText,     \* state inputText
    selectedImage, \* an image is selected (selectedImage and imageFile are set)
    isLoading,     \* state isLoading
    currentSessionId, \* state currentSessionId of the ChatBox, 0 for null
    submits,       \* the accepted calls of handleSubmit: what each one captured,
                   \* the state of its stream and the tokens it received
    saves,         \* the calls of saveSession that await the sessions API
    remote,        \* the sessions of the backend: the messages stored for each id
    createCalls,   \* number of createChatSession requests sent
    updateCalls,   \* number of updateChatSession requests sent
    saveFailed,    \* a request to the sessions API has failed
    \* ---- ChatPage and ChatSidebar ----
    pageCurrentSessionId, \* state currentSessionId of the ChatPage, 0 for null
    loads,         \* the calls of loadSession that await getChatSession
    deletes,       \* the calls of handleDeleteSession that await the API
    deleted,       \* the ids of the sessions the backend has deleted
    pageOps,       \* number of uses of the sidebar and of the Clear button
    everCleared    \* clearChat has been used

streamVars == <<pc, status, body, pos, lines, readerLocked, acquired, exit,
                forwarded, raw, reads, query, imageFile, requests>>
apiVars == <<inflight, last>>
dashVars == <<route, user, loading, editing, fullName>>
\* the state of the pages and components built on the client
wsVars == <<ws, sockets, callbacks, transmitted, wsLog, wsCalls>>
chatVars == <<messages, inputText, selectedImage, isLoading, currentSessionId,
              submits, saves, remote, createCalls, updateCalls, saveFailed>>
navVars == <<pageCurrentSessionId, loads, deletes, deleted, pageOps, everCleared>>
pageVars == <<dashVars, wsVars, chatVars, navVars>>
\* everything but the dashboard
notDash == <<pc, status, body, pos, lines, readerLocked, acquired, exit,
             forwarded, raw, reads, query, imageFile, requests, wsVars, chatVars,
             navVars>>
\* everything but the WebSocket wrapper
notWs == <<pc, status, body, pos, lines, readerLocked, acquired, exit,
           forwarded, raw, reads, query, imageFile, requests,
           token, inflight, last, dashVars, chatVars, navVars>>
\* everything but the ChatBox (the stored token is listed by each action)
notChat == <<pc, status, body, pos, lines, readerLocked, acquired, exit,
             forwarded, raw, reads, query, imageFile, requests,
             inflight, last, dashVars, wsVars, navVars>>
\* everything but the chat page: the ChatBox, the ChatPage and the sidebar
notChatPage == <<pc, status, body, pos, lines, readerLocked, acquired, exit,
                 forwarded, raw, reads, query, imageFile, requests,
                 inflight, last, dashVars, wsVars>>
vars == <<pc, status, body, pos, lines, readerLocked, acquired, exit,
          forwarded, raw, reads, query, imageFile, requests,
          token, inflight, last, pageVars>>

\* ---------------------------------------------------------------------
\* Bounds
\* ---------------------------------------------------------------------
MaxLines == 2
MaxChunks == 3
MaxInflight == 2
MaxQueryLen == 2
MaxWsCalls == 3
MaxWsLog == 2
MaxSubmits == 2
MaxTokens == 2
MaxPageOps == 3

\* ---------------------------------------------------------------------
\* Text
\* ---------------------------------------------------------------------
LF == "\n"
DataPrefix == <<"d", "a", "t", "a", ":", " ">>
DoneSentinel == <<"[", "D", "O", "N", "E", "]">>
WhiteSpace == {" ", "\n", "\r", "\t"}

\* String.prototype.startsWith
startsWith(s, p) ==
    /\ Len(s) >= Len(p)
    /\ SubSeq(s, 1, Len(p)) = p

\* String.prototype.indexOf, 1-based; 0 when p does not occur in s
indexOf(s, p) ==
    LET hits == {i \in 1..(Len(s) - Len(p) + 1) : SubSeq(s, i, i + Len(p) - 1) = p}
    IN  IF hits = {} THEN 0 ELSE CHOOSE i \in hits : \A j \in hits : i <= j

\* String.prototype.replace with a string pattern: the first occurrence only
replace(s, p, r) ==
    LET i == indexOf(s, p)
    IN  IF i = 0 THEN s
        ELSE SubSeq(s, 1, i - 1) \o r \o SubSeq(s, i + Len(p), Len(s))

\* String.prototype.trim
trim(s) ==
    LET keep == {i \in 1..Len(s) : s[i] \notin WhiteSpace}
    IN  IF keep = {} THEN <<>>
        ELSE LET lo == CHOOSE i \in keep : \A j \in keep : i <= j
                 hi == CHOOSE i \in keep : \A j \in keep : i >= j
             IN  SubSeq(s, lo, hi)

\* String.prototype.split("\n")
RECURSIVE split(_)
split(s) ==
    LET i == indexOf(s, <<LF>>)
    IN  IF i = 0 THEN <<s>>
        ELSE <<SubSeq(s, 1, i - 1)>> \o split(SubSeq(s, i + 1, Len(s)))

\* line.replace("data: ", "").trim()
PayloadOfVerbatim(line) == replace(line, DataPrefix, <<>>)
PayloadOf(line) == trim(replace(line, DataPrefix, <<>>))

\* ---------------------------------------------------------------------
\* Response bodies: up to MaxLines lines, each one of SampleLines, each
\* followed by a newline except possibly the last
\* ---------------------------------------------------------------------
SampleLines ==
    { DataPrefix \o <<"a">>,
      DataPrefix \o <<" ", "b", " ">>,
      DataPrefix \o DoneSentinel,
      <<"x">>,
      <<>> }

RECURSIVE BodiesOf(_)
BodiesOf(n) ==
    IF n = 0 THEN {<<>>}
    ELSE LET shorter == BodiesOf(n - 1)
         IN  shorter \cup {l \o <<LF>> \o b : l \in SampleLines, b \in shorter}
                     \cup {l : l \in SampleLines}

Bodies == BodiesOf(MaxLines)

HttpStatuses == {200, 401, 500}
Null == "null"
Undefined == "undefined"

\* JavaScript truthiness of a value that is a string, a File, null or undefined
Truthy(v) == v \notin {Null, Undefined, ""}
StoredTokens == {Null, "t1"}

\* ---------------------------------------------------------------------
\* The request of sendMessageStream
\* ---------------------------------------------------------------------
\* the part of the URL after API_BASE_URL, up to the query string
StreamPath == "/api/chat/stream"

\* characters a query is made of: a letter and three reserved characters
QueryChars == {"a", " ", "&", "#"}

RECURSIVE TextsOf(_)
TextsOf(n) ==
    IF n = 0 THEN {<<>>}
    ELSE LET shorter == TextsOf(n - 1)
         IN  shorter \cup {<<c>> \o t : c \in QueryChars, t \in shorter}

Queries == TextsOf(MaxQueryLen)
ImageFiles == {Null, Undefined, "file"}

\* the percent-encoding of one character
EncodeChar(c) ==
    CASE c = " " -> <<"%", "2", "0">>
      [] c = "&" -> <<"%", "2", "6">>
      [] c = "#" -> <<"%", "2", "3">>
      [] c = "%" -> <<"%", "2", "5">>
      [] OTHER   -> <<c>>

\* encodeURIComponent
RECURSIVE encodeURIComponent(_)
encodeURIComponent(t) ==
    IF t = <<>> THEN <<>>
    ELSE EncodeChar(Head(t)) \o encodeURIComponent(Tail(t))

\* a template literal that leaves the query as it is
UrlWithRawQuery(q) == <<StreamPath, "?", "query", "=">> \o q

\* `${API_BASE_URL}/api/chat/stream?query=${encodeURIComponent(query)}`
UrlWithQuery(q) == <<StreamPath, "?", "query", "=">> \o encodeURIComponent(q)

\* url and requestOptions as sendMessageStream hands them to fetch
BuildRequest(q, image) ==
    IF Truthy(image)
    THEN [method |-> "POST", url |-> <<StreamPath>>, accept |-> "text/event-stream",
          form |-> << <<"query", q>>, <<"image", image>> >>]
    ELSE [method |-> "GET", url |-> UrlWithQuery(q), accept |-> "text/event-stream",
          form |-> <<>>]

\* ---------------------------------------------------------------------
\* sendMessageStream
\* ---------------------------------------------------------------------
StreamStart ==
    /\ pc = "start"
    /\ status = 0
    /\ body \in Bodies
    /\ pos = 0
    /\ lines = <<>>
    /\ readerLocked = FALSE
    /\ acquired = FALSE
    /\ exit = "none"
    /\ forwarded = <<>>
    /\ raw = <<>>
    /\ reads = 0
    /\ query = <<"a">>
    /\ imageFile = Null
    /\ requests = <<>>

\* await fetch(url, requestOptions) rejects: network failure
FetchRejects ==
    /\ pc = "start"
    /\ requests' = Append(requests, BuildRequest(query, imageFile))
    /\ pc' = "rejected"
    /\ exit' = "fetchError"
    /\ UNCHANGED <<status, body, pos, lines, readerLocked, acquired,
                   forwarded, raw, reads, token, inflight, last,
                   query, imageFile, pageVars>>

\* fetch resolves with a response that has no body: throw new Error(...)
FetchNoBody ==
    /\ pc = "start"
    /\ requests' = Append(requests, BuildRequest(query, imageFile))
    /\ \E s \in HttpStatuses : status' = s
    /\ pc' = "rejected"
    /\ exit' = "noBody"
    /\ UNCHANGED <<body, pos, lines, readerLocked, acquired,
                   forwarded, raw, reads, token, inflight, last,
                   query, imageFile, pageVars>>

\* fetch resolves with any status; response.body.getReader()
FetchResolves ==
    /\ pc = "start"
    /\ requests' = Append(requests, BuildRequest(query, imageFile))
    /\ \E s \in HttpStatuses : status' = s
    /\ readerLocked' = TRUE
    /\ acquired' = TRUE
    /\ pc' = "read"
    /\ UNCHANGED <<body, pos, lines, exit, forwarded, raw, reads,
                   token, inflight, last,
                   query, imageFile, pageVars>>

\* the sizes the next chunk can have: any, until only one chunk is left
ChunkSizes ==
    IF reads + 1 >= MaxChunks THEN {Len(body) - pos} ELSE 1..(Len(body) - pos)

\* await reader.read() delivers the next chunk: decode, split("\n")
ReadChunk ==
    /\ pc = "read"
    /\ pos < Len(body)
    /\ \E n \in ChunkSizes :
          /\ lines' = split(SubSeq(body, pos + 1, pos + n))
          /\ pos' = pos + n
    /\ reads' = reads + 1
    /\ pc' = "lines"
    /\ UNCHANGED <<requests, status, body, readerLocked, acquired, exit, forwarded, raw,
                   token, inflight, last,
                   query, imageFile, pageVars>>

\* await reader.read() answers done: break
ReadDone ==
    /\ pc = "read"
    /\ pos = Len(body)
    /\ reads' = reads + 1
    /\ exit' = "done"
    /\ pc' = "finally"
    /\ UNCHANGED <<requests, status, body, pos, lines, readerLocked, acquired,
                   forwarded, raw, token, inflight, last,
                   query, imageFile, pageVars>>

\* await reader.read() rejects: the stream errored
ReadRejects ==
    /\ pc = "read"
    /\ reads' = reads + 1
    /\ exit' = "readError"
    /\ pc' = "finally"
    /\ UNCHANGED <<requests, status, body, pos, lines, readerLocked, acquired,
                   forwarded, raw, token, inflight, last,
                   query, imageFile, pageVars>>

\* one iteration of  for (const line of lines)
AfterLine == IF Len(lines) = 1 THEN "read" ELSE "lines"

\* the line is not prefixed "data: "
SkipLine ==
    /\ pc = "lines"
    /\ ~ startsWith(Head(lines), DataPrefix)
    /\ lines' = Tail(lines)
    /\ pc' = AfterLine
    /\ UNCHANGED <<requests, status, body, pos, readerLocked, acquired, exit,
                   forwarded, raw, reads, token, inflight, last,
                   query, imageFile, pageVars>>

\* data === "[DONE]": return
SeeDone ==
    /\ pc = "lines"
    /\ startsWith(Head(lines), DataPrefix)
    /\ PayloadOf(Head(lines)) = DoneSentinel
    /\ exit' = "sentinel"
    /\ pc' = "finally"
    /\ UNCHANGED <<requests, status, body, pos, lines, readerLocked, acquired,
                   forwarded, raw, reads, token, inflight, last,
                   query, imageFile, pageVars>>

\* onMessage(data) returns
ForwardToken ==
    /\ pc = "lines"
    /\ startsWith(Head(lines), DataPrefix)
    /\ PayloadOf(Head(lines)) # DoneSentinel
    /\ forwarded' = Append(forwarded, PayloadOf(Head(lines)))
    /\ raw' = Append(raw, Head(lines))
    /\ lines' = Tail(lines)
    /\ pc' = AfterLine
    /\ UNCHANGED <<requests, status, body, pos, readerLocked, acquired, exit, reads,
                   token, inflight, last,
                   query, imageFile, pageVars>>

\* onMessage(data) throws
CallbackThrows ==
    /\ pc = "lines"
    /\ startsWith(Head(lines), DataPrefix)
    /\ PayloadOf(Head(lines)) # DoneSentinel
    /\ forwarded' = Append(forwarded, PayloadOf(Head(lines)))
    /\ raw' = Append(raw, Head(lines))
    /\ exit' = "callbackError"
    /\ pc' = "finally"
    /\ UNCHANGED <<requests, status, body, pos, lines, readerLocked, acquired, reads,
                   token, inflight, last,
                   query, imageFile, pageVars>>

ThrowingExits == {"readError", "callbackError"}

\* a try block without finally: the lock is released only after the loop
ReleaseOnNormalExitOnly ==
    /\ pc = "finally"
    /\ readerLocked' = (exit \in ThrowingExits)
    /\ pc' = IF exit \in ThrowingExits THEN "rejected" ELSE "resolved"
    /\ UNCHANGED <<requests, status, body, pos, lines, acquired, exit, forwarded, raw,
                   reads, token, inflight, last,
                   query, imageFile, pageVars>>

\* finally { reader.releaseLock() }, then the pending return or throw
Finally ==
    /\ pc = "finally"
    /\ readerLocked' = FALSE
    /\ pc' = IF exit \in ThrowingExits THEN "rejected" ELSE "resolved"
    /\ UNCHANGED <<requests, status, body, pos, lines, acquired, exit, forwarded, raw,
                   reads, token, inflight, last,
                   query, imageFile, pageVars>>

NextStream ==
    \/ FetchRejects
    \/ FetchNoBody
    \/ FetchResolves
    \/ ReadChunk
    \/ ReadDone
    \/ ReadRejects
    \/ SkipLine
    \/ SeeDone
    \/ ForwardToken
    \/ CallbackThrows
    \/ Finally

\* ---------------------------------------------------------------------
\* The axios client, its interceptors and ApiService
\* ---------------------------------------------------------------------
NoResponse == 0
NoAuth == <<>>
Bearer(t) == <<"Bearer", t>>

\* methods that await one apiClient call and return response.data; "users"
\* is any of listUsers, countUsers, getUserById, updateUser, deleteUser
PlainOps == {"health", "me", "users", "ingestData"}
\* methods that store response.data.access_token
AuthOps == {"register", "login", "refreshToken"}
AxiosOps == PlainOps \cup AuthOps \cup {"logout"}

\* what a server can put in response.data.access_token
AccessTokens == {Undefined, "", "t1", "t2"}
ErrorStatuses == {NoResponse, 401, 500}

NoCall == [op |-> "none", status |-> NoResponse, outcome |-> "none",
           before |-> Null, access |-> Undefined]

ApiIdle ==
    /\ inflight = EmptyBag
    /\ last = NoCall

StreamIdle ==
    /\ pc = "start"
    /\ status = 0
    /\ body = <<>>
    /\ pos = 0
    /\ lines = <<>>
    /\ readerLocked = FALSE
    /\ acquired = FALSE
    /\ exit = "none"
    /\ forwarded = <<>>
    /\ raw = <<>>
    /\ reads = 0
    /\ query = <<>>
    /\ imageFile = Null
    /\ requests = <<>>

\* the dashboard page is not mounted
DashIdle ==
    /\ route = "/"
    /\ user = Null
    /\ loading = TRUE
    /\ editing = FALSE
    /\ fullName = ""

\* no WebSocketChat method has been called
NoCallbacks == [registered |-> FALSE, onConnect |-> FALSE, onDisconnect |-> FALSE]
WsIdle ==
    /\ ws = 0
    /\ sockets = <<>>
    /\ callbacks = NoCallbacks
    /\ transmitted = <<>>
    /\ wsLog = <<>>
    /\ wsCalls = 0

\* the greeting every ChatBox starts with; its id is '1'
DefaultMessage == [id |-> 1, text |-> <<"Hello! I'm DocBot">>, isBot |-> TRUE,
                   image |-> FALSE]

\* a ChatBox as useState initialises it, with sessionId = null
ChatIdle ==
    /\ messages = <<DefaultMessage>>
    /\ inputText = <<>>
    /\ selectedImage = FALSE
    /\ isLoading = FALSE
    /\ currentSessionId = 0
    /\ submits = <<>>
    /\ saves = {}
    /\ remote = <<>>
    /\ createCalls = 0
    /\ updateCalls = 0
    /\ saveFailed = FALSE

\* a ChatPage as useState initialises it, nothing awaited, nothing deleted
NavIdle ==
    /\ pageCurrentSessionId = 0
    /\ loads = {}
    /\ deletes = {}
    /\ deleted = {}
    /\ pageOps = 0
    /\ everCleared = FALSE

\* no page of the application is active
PageIdle == DashIdle /\ WsIdle /\ ChatIdle /\ NavIdle

\* a call of sendMessageStream begins; the axios client is idle
InitStream ==
    /\ StreamStart
    /\ token \in StoredTokens
    /\ ApiIdle
    /\ PageIdle

\* a call of sendMessageStream with any query and image, on a short body
InitRequest ==
    /\ pc = "start"
    /\ status = 0
    /\ body \in BodiesOf(1)
    /\ pos = 0
    /\ lines = <<>>
    /\ readerLocked = FALSE
    /\ acquired = FALSE
    /\ exit = "none"
    /\ forwarded = <<>>
    /\ raw = <<>>
    /\ reads = 0
    /\ query \in Queries
    /\ imageFile \in ImageFiles
    /\ requests = <<>>
    /\ token = Null
    /\ ApiIdle
    /\ PageIdle

\* the page has loaded api.ts; no call of sendMessageStream is modelled
InitApi ==
    /\ token \in StoredTokens
    /\ ApiIdle
    /\ StreamIdle
    /\ PageIdle

\* an interceptor that sets the header without testing the token
RequestInterceptorUnchecked(stored) == Bearer(stored)

\* request interceptor: the Authorization header of the outgoing config
RequestInterceptor(stored) ==
    IF Truthy(stored) THEN Bearer(stored) ELSE NoAuth

\* an error interceptor that leaves local storage alone
ResponseErrorKeeps(st, stored) == stored

\* an error interceptor that drops the token on every failure
ResponseErrorDropsAlways(st, stored) == Null

\* response error interceptor: the stored token after it has run
ResponseError(st, stored) ==
    IF st = 401 THEN Null ELSE stored

\* setItem without the test of response.data.access_token
StoreAccessTokenUnchecked(access, stored) == access

\* if (response.data.access_token) localStorage.setItem(...)
StoreAccessToken(access, stored) ==
    IF Truthy(access) THEN access ELSE stored

\* the client has room for one more concurrent request
CanSend == BagCardinality(inflight) < MaxInflight

\* the requests of the given methods that await their answer
Pending(ops) == {r \in BagToSet(inflight) : r.op \in ops}

Completed(r, st, out, access) ==
    [op |-> r.op, status |-> st, outcome |-> out, before |-> token,
     access |-> access]

\* apiClient.get/post/put/delete: the request interceptor runs and the
\* request leaves
AxiosSend ==
    \E op \in AxiosOps :
        /\ CanSend
        /\ inflight' = inflight (+) SetToBag(
               {[op |-> op, auth |-> RequestInterceptor(token), stored |-> token]})
        /\ UNCHANGED <<streamVars, pageVars, token, last>>

\* verifyEmail: a plain fetch, no interceptor and no Authorization header
VerifyEmailSend ==
    /\ CanSend
    /\ inflight' = inflight (+) SetToBag(
           {[op |-> "verifyEmail", auth |-> NoAuth, stored |-> token]})
    /\ UNCHANGED <<streamVars, pageVars, token, last>>

\* an axios request fails (no response, or a status outside 2xx): the
\* error interceptor runs and the method's promise rejects
AxiosRejects ==
    \E r \in Pending(AxiosOps), st \in ErrorStatuses :
        /\ token' = ResponseError(st, token)
        /\ last' = Completed(r, st, "rejected", Undefined)
        /\ inflight' = inflight (-) SetToBag({r})
        /\ UNCHANGED <<streamVars, pageVars>>

\* health, me, the users methods, ingestData: return response.data
PlainResolves ==
    \E r \in Pending(PlainOps) :
        /\ last' = Completed(r, 200, "resolved", Undefined)
        /\ inflight' = inflight (-) SetToBag({r})
        /\ UNCHANGED <<streamVars, pageVars, token>>

\* register, login, refreshToken: store the access_token of the response
AuthResolves ==
    \E r \in Pending(AuthOps), access \in AccessTokens :
        /\ token' = StoreAccessToken(access, token)
        /\ last' = Completed(r, 200, "resolved", access)
        /\ inflight' = inflight (-) SetToBag({r})
        /\ UNCHANGED <<streamVars, pageVars>>

\* logout: removeItem once the request has succeeded
LogoutResolves ==
    \E r \in Pending({"logout"}) :
        /\ token' = Null
        /\ last' = Completed(r, 200, "resolved", Undefined)
        /\ inflight' = inflight (-) SetToBag({r})
        /\ UNCHANGED <<streamVars, pageVars>>

\* verifyEmail: fetch rejects, or !response.ok throws
VerifyEmailRejects ==
    \E r \in Pending({"verifyEmail"}), st \in ErrorStatuses :
        /\ last' = Completed(r, st, "rejected", Undefined)
        /\ inflight' = inflight (-) SetToBag({r})
        /\ UNCHANGED <<streamVars, pageVars, token>>

\* verifyEmail: return response.json()
VerifyEmailResolves ==
    \E r \in Pending({"verifyEmail"}) :
        /\ last' = Completed(r, 200, "resolved", Undefined)
        /\ inflight' = inflight (-) SetToBag({r})
        /\ UNCHANGED <<streamVars, pageVars, token>>

NextApi ==
    \/ AxiosSend
    \/ VerifyEmailSend
    \/ AxiosRejects
    \/ PlainResolves
    \/ AuthResolves
    \/ LogoutResolves
    \/ VerifyEmailRejects
    \/ VerifyEmailResolves

SpecStream == InitStream /\ [][NextStream]_vars

SpecApi == InitApi /\ [][NextApi]_vars

SpecRequest == InitRequest /\ [][NextStream]_vars

\* ---------------------------------------------------------------------
\* DashboardPage (app/dashboard/page.tsx)
\* ---------------------------------------------------------------------
Names == {"n1", "n2"}
Mounted == route = "/dashboard"
\* the page body is rendered: not loading and a user is loaded
DashRendered == Mounted /\ ~ loading /\ user # Null

AxiosRequest(op) == [op |-> op, auth |-> RequestInterceptor(token), stored |-> token]

\* the page has mounted and useEffect has called loadUser: api.me() is sent
InitDashboard ==
    /\ token \in StoredTokens
    /\ last = NoCall
    /\ inflight = SetToBag({AxiosRequest("me")})
    /\ route = "/dashboard"
    /\ user = Null
    /\ loading = TRUE
    /\ editing = FALSE
    /\ fullName = ""
    /\ StreamIdle
    /\ WsIdle
    /\ ChatIdle
    /\ NavIdle

\* loadUser: api.me() resolves; setUser, setFullName, finally setLoading(false)
LoadUserResolves ==
    \E r \in Pending({"me"}), n \in Names :
        /\ last' = Completed(r, 200, "resolved", Undefined)
        /\ inflight' = inflight (-) SetToBag({r})
        /\ IF Mounted
           THEN user' = n /\ fullName' = n /\ loading' = FALSE
           ELSE UNCHANGED <<user, fullName, loading>>
        /\ UNCHANGED <<notDash, token, route, editing>>

\* loadUser: api.me() rejects; router.push('/login'), finally setLoading(false)
LoadUserRejects ==
    \E r \in Pending({"me"}), st \in ErrorStatuses :
        /\ token' = ResponseError(st, token)
        /\ last' = Completed(r, st, "rejected", Undefined)
        /\ inflight' = inflight (-) SetToBag({r})
        /\ route' = "/login"
        /\ loading' = IF Mounted THEN FALSE ELSE loading
        /\ UNCHANGED <<notDash, user, editing, fullName>>

\* handleLogout: the Logout button calls api.logout()
HandleLogout ==
    /\ DashRendered
    /\ CanSend
    /\ inflight' = inflight (+) SetToBag({AxiosRequest("logout")})
    /\ UNCHANGED <<notDash, token, last, dashVars>>

\* handleLogout: api.logout() resolves (removeItem), then router.push('/')
DashLogoutResolves ==
    \E r \in Pending({"logout"}) :
        /\ token' = Null
        /\ last' = Completed(r, 200, "resolved", Undefined)
        /\ inflight' = inflight (-) SetToBag({r})
        /\ route' = "/"
        /\ UNCHANGED <<notDash, user, loading, editing, fullName>>

\* a handleLogout that leaves the page whatever happened
DashLogoutRejectsAndLeaves ==
    \E r \in Pending({"logout"}), st \in ErrorStatuses :
        /\ token' = ResponseError(st, token)
        /\ last' = Completed(r, st, "rejected", Undefined)
        /\ inflight' = inflight (-) SetToBag({r})
        /\ route' = "/"
        /\ UNCHANGED <<notDash, user, loading, editing, fullName>>

\* handleLogout: api.logout() rejects; catch logs the error
DashLogoutRejects ==
    \E r \in Pending({"logout"}), st \in ErrorStatuses :
        /\ token' = ResponseError(st, token)
        /\ last' = Completed(r, st, "rejected", Undefined)
        /\ inflight' = inflight (-) SetToBag({r})
        /\ UNCHANGED <<notDash, dashVars>>

\* the Edit button: setEditing(true)
StartEditing ==
    /\ DashRendered
    /\ ~ editing
    /\ editing' = TRUE
    /\ UNCHANGED <<notDash, token, inflight, last, route, user, loading, fullName>>

\* the Cancel button: setEditing(false)
CancelEditing ==
    /\ DashRendered
    /\ editing
    /\ editing' = FALSE
    /\ UNCHANGED <<notDash, token, inflight, last, route, user, loading, fullName>>

\* the name input: setFullName(e.target.value)
TypeFullName ==
    /\ DashRendered
    /\ editing
    /\ \E n \in Names : fullName' = n
    /\ UNCHANGED <<notDash, token, inflight, last, route, user, loading, editing>>

\* handleUpdateProfile: the Save button calls api.updateUser
HandleUpdateProfile ==
    /\ DashRendered
    /\ editing
    /\ CanSend
    /\ inflight' = inflight (+) SetToBag({AxiosRequest("users")})
    /\ UNCHANGED <<notDash, token, last, dashVars>>

\* handleUpdateProfile: updateUser resolves; setUser(updated), setEditing(false)
UpdateProfileResolves ==
    \E r \in Pending({"users"}), n \in Names :
        /\ last' = Completed(r, 200, "resolved", Undefined)
        /\ inflight' = inflight (-) SetToBag({r})
        /\ IF Mounted
           THEN user' = n /\ editing' = FALSE
           ELSE UNCHANGED <<user, editing>>
        /\ UNCHANGED <<notDash, token, route, loading, fullName>>

\* handleUpdateProfile: updateUser rejects; catch logs the error
UpdateProfileRejects ==
    \E r \in Pending({"users"}), st \in ErrorStatuses :
        /\ token' = ResponseError(st, token)
        /\ last' = Completed(r, st, "rejected", Undefined)
        /\ inflight' = inflight (-) SetToBag({r})
        /\ UNCHANGED <<notDash, dashVars>>

NextDashboard ==
    \/ LoadUserResolves
    \/ LoadUserRejects
    \/ HandleLogout
    \/ DashLogoutResolves
    \/ DashLogoutRejects
    \/ StartEditing
    \/ CancelEditing
    \/ TypeFullName
    \/ HandleUpdateProfile
    \/ UpdateProfileResolves
    \/ UpdateProfileRejects

SpecDashboard == InitDashboard /\ [][NextDashboard]_vars

\* ---------------------------------------------------------------------
\* WebSocketChat (services/api.ts)
\* ---------------------------------------------------------------------
Messages == {"m1"}
NotConnectedText == "WebSocket is not connected"

\* this.ws !== null && this.ws.readyState === WebSocket.OPEN
isConnected == ws # 0 /\ sockets[ws].readyState = "OPEN"

\* this.on...?.(arg): the callback runs if the field holds one
Invoke(has, name, arg) == IF has THEN Append(wsLog, <<name, arg>>) ELSE wsLog

CanCall == wsCalls < MaxWsCalls
LogHasRoom == Len(wsLog) < MaxWsLog

InitWs ==
    /\ WsIdle
    /\ token \in StoredTokens
    /\ ApiIdle
    /\ StreamIdle
    /\ DashIdle
    /\ ChatIdle
    /\ NavIdle

\* connect: the callbacks are stored, new WebSocket(...) succeeds
WsConnect ==
    /\ CanCall
    /\ \E c \in BOOLEAN, dc \in BOOLEAN :
          callbacks' = [registered |-> TRUE, onConnect |-> c, onDisconnect |-> dc]
    /\ sockets' = Append(sockets, [readyState |-> "CONNECTING", closeCalls |-> 0,
                                   errored |-> FALSE])
    /\ ws' = Len(sockets) + 1
    /\ wsCalls' = wsCalls + 1
    /\ UNCHANGED <<notWs, transmitted, wsLog>>

\* connect: new WebSocket(...) throws; catch reports through onError
WsConnectThrows ==
    /\ CanCall
    /\ LogHasRoom
    /\ \E c \in BOOLEAN, dc \in BOOLEAN :
          callbacks' = [registered |-> TRUE, onConnect |-> c, onDisconnect |-> dc]
    /\ wsLog' = Append(wsLog, <<"onError", "Failed to create WebSocket connection">>)
    /\ wsCalls' = wsCalls + 1
    /\ UNCHANGED <<notWs, ws, sockets, transmitted>>

\* a sendMessage that only tests that a socket exists
WsSendMessageAnyState ==
    /\ CanCall
    /\ LogHasRoom
    /\ \E m \in Messages :
          IF ws # 0
          THEN /\ transmitted' = Append(transmitted, <<ws, m>>)
               /\ wsLog' = wsLog
          ELSE /\ transmitted' = transmitted
               /\ wsLog' = Invoke(callbacks.registered, "onError", NotConnectedText)
    /\ wsCalls' = wsCalls + 1
    /\ UNCHANGED <<notWs, ws, sockets, callbacks>>

\* sendMessage
WsSendMessage ==
    /\ CanCall
    /\ LogHasRoom
    /\ \E m \in Messages :
          IF ws # 0 /\ sockets[ws].readyState = "OPEN"
          THEN /\ transmitted' = Append(transmitted, <<ws, m>>)
               /\ wsLog' = wsLog
          ELSE /\ transmitted' = transmitted
               /\ wsLog' = Invoke(callbacks.registered, "onError", NotConnectedText)
    /\ wsCalls' = wsCalls + 1
    /\ UNCHANGED <<notWs, ws, sockets, callbacks>>

\* WebSocket.close(): CONNECTING and OPEN sockets start closing
CloseSocket(k) ==
    [sockets EXCEPT ![k] =
        [@ EXCEPT !.closeCalls = @ + 1,
                  !.readyState = IF @ \in {"CONNECTING", "OPEN"} THEN "CLOSING" ELSE @]]

\* a disconnect that closes the socket and keeps the reference
WsDisconnectKeepsRef ==
    /\ CanCall
    /\ IF ws # 0
       THEN sockets' = CloseSocket(ws) /\ ws' = ws
       ELSE UNCHANGED <<ws, sockets>>
    /\ wsCalls' = wsCalls + 1
    /\ UNCHANGED <<notWs, callbacks, transmitted, wsLog>>

\* disconnect
WsDisconnect ==
    /\ CanCall
    /\ IF ws # 0
       THEN sockets' = CloseSocket(ws) /\ ws' = 0
       ELSE UNCHANGED <<ws, sockets>>
    /\ wsCalls' = wsCalls + 1
    /\ UNCHANGED <<notWs, callbacks, transmitted, wsLog>>

\* the connection of socket k is established: onopen
SocketOpens ==
    \E k \in DOMAIN sockets :
        /\ sockets[k].readyState = "CONNECTING"
        /\ LogHasRoom
        /\ sockets' = [sockets EXCEPT ![k].readyState = "OPEN"]
        /\ wsLog' = Invoke(callbacks.onConnect, "onConnect", "")
        /\ UNCHANGED <<notWs, ws, callbacks, transmitted, wsCalls>>

\* a message arrives on socket k: onmessage
SocketMessage ==
    \E k \in DOMAIN sockets, m \in Messages :
        /\ sockets[k].readyState \in {"OPEN", "CLOSING"}
        /\ LogHasRoom
        /\ wsLog' = Invoke(callbacks.registered, "onMessage", m)
        /\ UNCHANGED <<notWs, ws, sockets, callbacks, transmitted, wsCalls>>

\* socket k fails: onerror
SocketErrors ==
    \E k \in DOMAIN sockets :
        /\ sockets[k].readyState # "CLOSED"
        /\ ~ sockets[k].errored
        /\ LogHasRoom
        /\ sockets' = [sockets EXCEPT ![k].errored = TRUE]
        /\ wsLog' = Invoke(callbacks.registered, "onError", "WebSocket connection error")
        /\ UNCHANGED <<notWs, ws, callbacks, transmitted, wsCalls>>

\* the connection of socket k is closed: onclose
SocketCloses ==
    \E k \in DOMAIN sockets :
        /\ sockets[k].readyState # "CLOSED"
        /\ LogHasRoom
        /\ sockets' = [sockets EXCEPT ![k].readyState = "CLOSED"]
        /\ wsLog' = Invoke(callbacks.onDisconnect, "onDisconnect", "")
        /\ UNCHANGED <<notWs, ws, callbacks, transmitted, wsCalls>>

NextWs ==
    \/ WsConnect
    \/ WsConnectThrows
    \/ WsSendMessage
    \/ WsDisconnect
    \/ SocketOpens
    \/ SocketMessage
    \/ SocketErrors
    \/ SocketCloses

SpecWs == InitWs /\ [][NextWs]_vars

\* ---------------------------------------------------------------------
\* ChatBox (frontend/src/components/ChatBox.tsx)
\*
\* React renders after every state update, so a handler of the page reads
\* the latest state; the continuation of an asynchronous handler keeps the
\* values of the render it was started in. Date.now() is the position of
\* the submit, so the ids of the messages of distinct submits are distinct.
\* The sessions API the ChatBox calls (createChatSession,
\* updateChatSession) is a remote CRUD-style API: a session created gets a
\* fresh id, an update replaces the messages of a session.
\* ---------------------------------------------------------------------
\* what the user can have in the text field
ChatTexts == {<<>>, <<" ">>, <<"q">>}

\* the payloads a stream can hand to onMessage
ChatTokens == {<<"a">>, <<"b">>, <<>>}

UploadedText == <<"Uploaded an image">>
ErrorText == <<"Error processing health query. Please try again.">>

\* the ids handleSubmit gives to the messages of the k-th submit
UserMessageId(k) == 2 * k
BotMessageId(k) == 2 * k + 1

\* the token is appended without the space that separates it from the next
MapAppendNoSpace(msgs, id, t) ==
    [i \in 1..Len(msgs) |->
        IF msgs[i].id = id THEN [msgs[i] EXCEPT !.text = @ \o t]
        ELSE msgs[i]]

\* prev.map(msg => msg.id === id ? { ...msg, text: f(msg.text) } : msg)
MapAppend(msgs, id, t) ==
    [i \in 1..Len(msgs) |->
        IF msgs[i].id = id THEN [msgs[i] EXCEPT !.text = @ \o t \o <<" ">>]
        ELSE msgs[i]]

MapTrim(msgs, id) ==
    [i \in 1..Len(msgs) |->
        IF msgs[i].id = id THEN [msgs[i] EXCEPT !.text = trim(@)]
        ELSE msgs[i]]

MapError(msgs, id) ==
    [i \in 1..Len(msgs) |->
        IF msgs[i].id = id THEN [msgs[i] EXCEPT !.text = ErrorText]
        ELSE msgs[i]]

\* the messages as saveSession sends them
ChatMessagesOf(msgs) ==
    [i \in 1..Len(msgs) |->
        [text |-> msgs[i].text, isBot |-> msgs[i].isBot, image |-> msgs[i].image]]

\* sessions API: a created session gets a fresh id and has no messages
RemoteCreate == Append(remote, <<>>)

\* sessions API: an update replaces the messages of the session
RemoteUpdate(sid, msgs) == [remote EXCEPT ![sid] = msgs]

InitChat ==
    /\ token \in StoredTokens
    /\ ApiIdle
    /\ StreamIdle
    /\ DashIdle
    /\ WsIdle
    /\ ChatIdle
    /\ NavIdle

\* onChange of the text field, which is disabled while isLoading
TypeText(t) ==
    /\ ~isLoading
    /\ Len(submits) < MaxSubmits
    /\ t # inputText
    /\ inputText' = t
    /\ UNCHANGED <<notChat, token, messages, selectedImage, isLoading,
                   currentSessionId, submits, saves, remote, createCalls,
                   updateCalls, saveFailed>>

\* handleImageSelect with an image file; the button is disabled while isLoading
HandleImageSelect ==
    /\ ~isLoading
    /\ Len(submits) < MaxSubmits
    /\ ~selectedImage
    /\ selectedImage' = TRUE
    /\ UNCHANGED <<notChat, token, messages, inputText, isLoading,
                   currentSessionId, submits, saves, remote, createCalls,
                   updateCalls, saveFailed>>

\* the button that removes the selected image
ClearImage ==
    /\ selectedImage
    /\ Len(submits) < MaxSubmits
    /\ selectedImage' = FALSE
    /\ UNCHANGED <<notChat, token, messages, inputText, isLoading,
                   currentSessionId, submits, saves, remote, createCalls,
                   updateCalls, saveFailed>>

\* handleSubmit up to its await: the two messages are appended and the
\* stream is requested
HandleSubmit ==
    /\ ~((trim(inputText) = <<>> /\ ~selectedImage) \/ isLoading)
    /\ Len(submits) < MaxSubmits
    /\ LET k == Len(submits) + 1
           userMessage == [id |-> UserMessageId(k),
                           text |-> IF trim(inputText) # <<>>
                                    THEN trim(inputText) ELSE UploadedText,
                           isBot |-> FALSE,
                           image |-> selectedImage]
           botMessage == [id |-> BotMessageId(k), text |-> <<>>,
                          isBot |-> TRUE, image |-> FALSE]
       IN /\ messages' = Append(Append(messages, userMessage), botMessage)
          /\ submits' = Append(submits,
                 [botMessageId |-> BotMessageId(k),
                  currentSessionId |-> currentSessionId,
                  firstTokenReceived |-> FALSE,
                  stream |-> "pending",
                  tokens |-> <<>>])
    /\ inputText' = <<>>
    /\ selectedImage' = FALSE
    /\ isLoading' = TRUE
    /\ UNCHANGED <<notChat, token, currentSessionId, saves, remote,
                   createCalls, updateCalls, saveFailed>>

\* the onMessage callback of the k-th submit receives a token
StreamToken(k, t) ==
    /\ k \in DOMAIN submits
    /\ submits[k].stream = "pending"
    /\ Len(submits[k].tokens) < MaxTokens
    /\ isLoading' = IF ~submits[k].firstTokenReceived THEN FALSE ELSE isLoading
    /\ messages' = MapAppend(messages, submits[k].botMessageId, t)
    /\ submits' = [submits EXCEPT ![k].firstTokenReceived = TRUE,
                                  ![k].tokens = Append(@, t)]
    /\ UNCHANGED <<notChat, token, inputText, selectedImage, currentSessionId,
                   saves, remote, createCalls, updateCalls, saveFailed>>

\* saveSession up to its first await, with the currentSessionId of the
\* render the submit was started in
SaveSession(k, msgs) ==
    IF ~Truthy(token)
    THEN UNCHANGED <<saves, createCalls, updateCalls>>
    ELSE IF submits[k].currentSessionId # 0
    THEN /\ saves' = saves \cup {[submit |-> k, request |-> "update",
                                  id |-> submits[k].currentSessionId,
                                  messages |-> ChatMessagesOf(msgs)]}
         /\ updateCalls' = updateCalls + 1
         /\ UNCHANGED createCalls
    ELSE /\ saves' = saves \cup {[submit |-> k, request |-> "create",
                                  id |-> 0,
                                  messages |-> ChatMessagesOf(msgs)]}
         /\ createCalls' = createCalls + 1
         /\ UNCHANGED updateCalls

\* the stream of the k-th submit resolves, the finally block is left out
StreamResolvesKeepsLoading(k) ==
    /\ k \in DOMAIN submits
    /\ submits[k].stream = "pending"
    /\ LET finalMessages == MapTrim(messages, submits[k].botMessageId)
       IN /\ messages' = finalMessages
          /\ SaveSession(k, finalMessages)
    /\ submits' = [submits EXCEPT ![k].stream = "resolved"]
    /\ UNCHANGED <<notChat, token, inputText, selectedImage, currentSessionId,
                   remote, saveFailed, isLoading>>

\* the stream of the k-th submit resolves: the reply is trimmed and saved
StreamResolves(k) ==
    /\ k \in DOMAIN submits
    /\ submits[k].stream = "pending"
    /\ LET finalMessages == MapTrim(messages, submits[k].botMessageId)
       IN /\ messages' = finalMessages
          /\ SaveSession(k, finalMessages)
    /\ submits' = [submits EXCEPT ![k].stream = "resolved"]
    /\ isLoading' = FALSE
    /\ UNCHANGED <<notChat, token, inputText, selectedImage, currentSessionId,
                   remote, saveFailed>>

\* the stream of the k-th submit rejects and the session is saved all the same
StreamRejectsAndSaves(k) ==
    /\ k \in DOMAIN submits
    /\ submits[k].stream = "pending"
    /\ LET finalMessages == MapError(messages, submits[k].botMessageId)
       IN /\ messages' = finalMessages
          /\ SaveSession(k, finalMessages)
    /\ submits' = [submits EXCEPT ![k].stream = "rejected"]
    /\ isLoading' = FALSE
    /\ UNCHANGED <<notChat, token, inputText, selectedImage, currentSessionId,
                   remote, saveFailed>>

\* the stream of the k-th submit rejects: the catch block and the finally
StreamRejects(k) ==
    /\ k \in DOMAIN submits
    /\ submits[k].stream = "pending"
    /\ messages' = MapError(messages, submits[k].botMessageId)
    /\ submits' = [submits EXCEPT ![k].stream = "rejected"]
    /\ isLoading' = FALSE
    /\ UNCHANGED <<notChat, token, inputText, selectedImage, currentSessionId,
                   saves, remote, createCalls, updateCalls, saveFailed>>

\* createChatSession resolves: the new id becomes the current session and
\* the messages are sent to it
CreateResolves(s) ==
    /\ s \in saves
    /\ s.request = "create"
    /\ remote' = RemoteCreate
    /\ currentSessionId' = Len(remote')
    /\ saves' = (saves \ {s}) \cup {[s EXCEPT !.request = "update",
                                              !.id = Len(remote')]}
    /\ updateCalls' = updateCalls + 1
    /\ UNCHANGED <<notChat, token, messages, inputText, selectedImage,
                   isLoading, submits, createCalls, saveFailed>>

\* createChatSession rejects: saveSession logs the error
CreateRejects(s) ==
    /\ s \in saves
    /\ s.request = "create"
    /\ saves' = saves \ {s}
    /\ saveFailed' = TRUE
    /\ UNCHANGED <<notChat, token, messages, inputText, selectedImage,
                   isLoading, currentSessionId, submits, remote, createCalls,
                   updateCalls>>

\* updateChatSession resolves
UpdateResolves(s) ==
    /\ s \in saves
    /\ s.request = "update"
    /\ s.id \notin deleted
    /\ remote' = RemoteUpdate(s.id, s.messages)
    /\ saves' = saves \ {s}
    /\ UNCHANGED <<notChat, token, messages, inputText, selectedImage,
                   isLoading, currentSessionId, submits, createCalls,
                   updateCalls, saveFailed>>

\* updateChatSession rejects: saveSession logs the error
UpdateRejects(s) ==
    /\ s \in saves
    /\ s.request = "update"
    /\ saves' = saves \ {s}
    /\ saveFailed' = TRUE
    /\ UNCHANGED <<notChat, token, messages, inputText, selectedImage,
                   isLoading, currentSessionId, submits, remote, createCalls,
                   updateCalls>>

NextChat ==
    \/ \E t \in ChatTexts : TypeText(t)
    \/ HandleImageSelect
    \/ ClearImage
    \/ HandleSubmit
    \/ \E k \in 1..MaxSubmits, t \in ChatTokens : StreamToken(k, t)
    \/ \E k \in 1..MaxSubmits : StreamResolves(k)
    \/ \E k \in 1..MaxSubmits : StreamRejects(k)
    \/ \E s \in saves : CreateResolves(s)
    \/ \E s \in saves : CreateRejects(s)
    \/ \E s \in saves : UpdateResolves(s)
    \/ \E s \in saves : UpdateRejects(s)

SpecChat == InitChat /\ [][NextChat]_vars

\* every stream that was requested ends: it resolves or it rejects
StreamEnds(k) == StreamResolves(k) \/ StreamRejects(k)

SpecChatFair ==
    /\ InitChat
    /\ [][NextChat]_vars
    /\ \A k \in 1..MaxSubmits : WF_vars(StreamEnds(k))

\* ---------------------------------------------------------------------
\* ChatPage (frontend/src/app/chat/page.tsx), the sidebar
\* (frontend/src/components/ChatSidebar.tsx) and the parts of the ChatBox
\* that follow the page: useEffect[sessionId], loadSession, clearChat.
\*
\* The ChatPage passes its currentSessionId to the ChatBox as the prop
\* sessionId; the effect of the ChatBox runs when the prop has changed.
\* The list the sidebar shows is not modelled: a signed-in user can pick
\* any session the backend holds.
\* ---------------------------------------------------------------------
\* two conversations saved earlier
History ==
    << <<[text |-> <<"q">>, isBot |-> FALSE, image |-> FALSE]>>,
       <<[text |-> <<"a">>, isBot |-> TRUE, image |-> FALSE]>> >>

\* the sessions the backend holds
LiveSessions == DOMAIN remote \ deleted

\* loadSession: the messages of a session as the ChatBox shows them
LoadedMessages(msgs) ==
    [i \in 1..Len(msgs) |->
        [id |-> 0 - i, text |-> msgs[i].text, isBot |-> msgs[i].isBot,
         image |-> msgs[i].image]]

InitPage ==
    /\ token \in StoredTokens
    /\ ApiIdle
    /\ StreamIdle
    /\ DashIdle
    /\ WsIdle
    /\ NavIdle
    /\ messages = <<DefaultMessage>>
    /\ inputText = <<>>
    /\ selectedImage = FALSE
    /\ isLoading = FALSE
    /\ currentSessionId = 0
    /\ submits = <<>>
    /\ saves = {}
    /\ remote \in {<<>>, History}
    /\ createCalls = 0
    /\ updateCalls = 0
    /\ saveFailed = FALSE

\* useEffect[sessionId] of the ChatBox, run with the new value of the prop
SessionIdEffect(sessionId) ==
    IF sessionId # currentSessionId
    THEN /\ currentSessionId' = sessionId
         /\ IF sessionId # 0
            THEN /\ loads' = loads \cup {[id |-> sessionId, n |-> pageOps]}
                 /\ UNCHANGED messages
            ELSE /\ messages' = <<DefaultMessage>>
                 /\ UNCHANGED loads
    ELSE UNCHANGED <<currentSessionId, messages, loads>>

\* setCurrentSessionId of the ChatPage: the ChatBox is rendered again and
\* its effect runs only if the value has changed
SetPageSession(sessionId) ==
    /\ pageCurrentSessionId' = sessionId
    /\ IF sessionId # pageCurrentSessionId
       THEN SessionIdEffect(sessionId)
       ELSE UNCHANGED <<currentSessionId, messages, loads>>

\* the New Chat button of the sidebar: handleNewChat
HandleNewChat ==
    /\ pageOps < MaxPageOps
    /\ pageOps' = pageOps + 1
    /\ SetPageSession(0)
    /\ UNCHANGED <<notChatPage, token, inputText, selectedImage, isLoading,
                   submits, saves, remote, createCalls, updateCalls,
                   saveFailed, deletes, deleted, everCleared>>

\* a click on a session of the sidebar: handleSelectSession
HandleSelectSession(sessionId) ==
    /\ pageOps < MaxPageOps
    /\ Truthy(token)
    /\ sessionId \in LiveSessions
    /\ pageOps' = pageOps + 1
    /\ SetPageSession(sessionId)
    /\ UNCHANGED <<notChatPage, token, inputText, selectedImage, isLoading,
                   submits, saves, remote, createCalls, updateCalls,
                   saveFailed, deletes, deleted, everCleared>>

\* getChatSession resolves: the loaded messages replace the list
LoadResolves(l) ==
    /\ l \in loads
    /\ l.id \in LiveSessions
    /\ messages' = LoadedMessages(remote[l.id])
    /\ loads' = loads \ {l}
    /\ UNCHANGED <<notChatPage, token, inputText, selectedImage, isLoading,
                   currentSessionId, submits, saves, remote, createCalls,
                   updateCalls, saveFailed, pageCurrentSessionId, deletes,
                   deleted, pageOps, everCleared>>

\* getChatSession rejects: resetToDefault
LoadRejects(l) ==
    /\ l \in loads
    /\ messages' = <<DefaultMessage>>
    /\ loads' = loads \ {l}
    /\ UNCHANGED <<notChatPage, token, inputText, selectedImage, isLoading,
                   currentSessionId, submits, saves, remote, createCalls,
                   updateCalls, saveFailed, pageCurrentSessionId, deletes,
                   deleted, pageOps, everCleared>>

\* the Clear button of the ChatBox: clearChat
ClearChat ==
    /\ pageOps < MaxPageOps
    /\ pageOps' = pageOps + 1
    /\ currentSessionId' = 0
    /\ messages' = <<DefaultMessage>>
    /\ selectedImage' = FALSE
    /\ everCleared' = TRUE
    /\ UNCHANGED <<notChatPage, token, inputText, isLoading, submits, saves,
                   remote, createCalls, updateCalls, saveFailed,
                   pageCurrentSessionId, loads, deletes, deleted>>

\* handleDeleteSession up to its await, with the currentSessionId the
\* sidebar was rendered with
HandleDeleteSession(sessionId) ==
    /\ pageOps < MaxPageOps
    /\ Truthy(token)
    /\ sessionId \in LiveSessions
    /\ pageOps' = pageOps + 1
    /\ deletes' = deletes \cup {[id |-> sessionId,
                                 currentSessionId |-> pageCurrentSessionId]}
    /\ UNCHANGED <<notChatPage, token, chatVars, pageCurrentSessionId, loads,
                   deleted, everCleared>>

\* deleteChatSession resolves: onNewChat if the session was the current one
DeleteResolves(d) ==
    /\ d \in deletes
    /\ d.id \in LiveSessions
    /\ deleted' = deleted \cup {d.id}
    /\ deletes' = deletes \ {d}
    /\ IF d.currentSessionId = d.id
       THEN SetPageSession(0)
       ELSE UNCHANGED <<pageCurrentSessionId, currentSessionId, messages, loads>>
    /\ UNCHANGED <<notChatPage, token, inputText, selectedImage, isLoading,
                   submits, saves, remote, createCalls, updateCalls,
                   saveFailed, pageOps, everCleared>>

\* deleteChatSession rejects: the sidebar alerts
DeleteRejects(d) ==
    /\ d \in deletes
    /\ deletes' = deletes \ {d}
    /\ UNCHANGED <<notChatPage, token, chatVars, pageCurrentSessionId, loads,
                   deleted, pageOps, everCleared>>

\* the chat page: a user who types questions, and the sidebar
NextPage ==
    \/ TypeText(<<"q">>)
    \/ HandleSubmit
    \/ \E k \in 1..MaxSubmits : StreamResolves(k)
    \/ \E k \in 1..MaxSubmits : StreamRejects(k)
    \/ \E s \in saves : CreateResolves(s)
    \/ \E s \in saves : CreateRejects(s)
    \/ \E s \in saves : UpdateResolves(s)
    \/ \E s \in saves : UpdateRejects(s)
    \/ HandleNewChat
    \/ \E sessionId \in DOMAIN remote : HandleSelectSession(sessionId)
    \/ \E l \in loads : LoadResolves(l)
    \/ \E l \in loads : LoadRejects(l)
    \/ ClearChat
    \/ \E sessionId \in DOMAIN remote : HandleDeleteSession(sessionId)
    \/ \E d \in deletes : DeleteResolves(d)
    \/ \E d \in deletes : DeleteRejects(d)

SpecPage == InitPage /\ [][NextPage]_vars

\* ---------------------------------------------------------------------
\* Properties of sendMessageStream
\* ---------------------------------------------------------------------
Terminal == {"resolved", "rejected"}

\* the newline-delimited lines of the whole response body
BodyLines == split(body)

\* the line is prefixed "data: " and its payload is the sentinel
IsSentinelLine(l) == startsWith(l, DataPrefix) /\ PayloadOf(l) = DoneSentinel

\* the payloads of the "data: " lines of ls that precede the first sentinel
RECURSIVE PayloadsBeforeDone(_)
PayloadsBeforeDone(ls) ==
    IF ls = <<>> THEN <<>>
    ELSE IF ~ startsWith(Head(ls), DataPrefix) THEN PayloadsBeforeDone(Tail(ls))
    ELSE IF IsSentinelLine(Head(ls)) THEN <<>>
    ELSE <<PayloadOf(Head(ls))>> \o PayloadsBeforeDone(Tail(ls))

\* number of body characters up to the end of line i, its newline included
RECURSIVE EndOffset(_)
EndOffset(i) ==
    IF i = 0 THEN 0
    ELSE LET e == EndOffset(i - 1) + Len(BodyLines[i]) + 1
         IN  IF e > Len(body) THEN Len(body) ELSE e

\* read() has handed out a whole sentinel line of the body
DoneReceived ==
    \E i \in 1..Len(BodyLines) :
        IsSentinelLine(BodyLines[i]) /\ pos >= EndOffset(i)

IsPrefixOf(s, t) == Len(s) <= Len(t) /\ SubSeq(t, 1, Len(s)) = s

\* the text of a chunk line after the six characters of the prefix
AfterPrefix(l) == SubSeq(l, Len(DataPrefix) + 1, Len(l))

\* C1: in every terminal state of the call the reader lock is not held,
\* whichever way the try block was left (done, sentinel, read() rejecting,
\* onMessage throwing).
C1_ReaderReleased == pc \in Terminal => ~ readerLocked

\* C1 witness: the call ended by onMessage throwing after the reader was acquired
C1_Witness ==
    /\ pc = "rejected"
    /\ acquired
    /\ exit = "callbackError"
    /\ ~ readerLocked

\* C2: once a whole "data: [DONE]" line of the body has been received, no
\* further read() is issued and onMessage is invoked neither for the
\* sentinel nor for anything after it.
C2_TerminatesOnDone ==
    DoneReceived =>
        /\ pc # "read"
        /\ IsPrefixOf(forwarded, PayloadsBeforeDone(BodyLines))

\* C3: a call that resolves has forwarded, once each and in order, exactly
\* the "data: " lines of the body that precede the sentinel, however the
\* body was divided into chunks.
C3_ForwardsEveryLine ==
    pc = "resolved" => forwarded = PayloadsBeforeDone(BodyLines)

\* C4 (as stated): every token is verbatim the text after the prefix.
C4_Verbatim ==
    \A i \in DOMAIN forwarded : forwarded[i] = AfterPrefix(raw[i])

\* C4 (amended): every token is the text that follows the "data: " prefix
\* of the chunk line it was parsed from, with leading and trailing white
\* space removed and nothing else changed.
C4_Trimmed ==
    \A i \in DOMAIN forwarded :
        /\ startsWith(raw[i], DataPrefix)
        /\ forwarded[i] = trim(AfterPrefix(raw[i]))

\* C4 witness: a token was forwarded whose line carried white space around it
C4_Witness ==
    \E i \in DOMAIN forwarded :
        /\ forwarded[i] = <<"b">>
        /\ AfterPrefix(raw[i]) = <<" ", "b", " ">>

\* C6: when the chat stream request is answered with HTTP 401 the stored
\* access_token is removed from local storage.
C6_StreamClearsTokenOn401 ==
    (pc \in Terminal /\ status = 401) => token = Null

\* C8: when the stream request fails (fetch rejects, no body, a read fails,
\* or the server answers with an HTTP error status) the call rejects.
C8_StreamErrorsReject ==
    (/\ pc \in Terminal
     /\ \/ exit \in {"fetchError", "noBody", "readError"}
        \/ status \in {401, 500})
    => pc = "rejected"

\* ---------------------------------------------------------------------
\* Properties of the axios client and the stored token
\* ---------------------------------------------------------------------

\* C5: when the last completed call went through the axios client and was
\* answered with HTTP 401, its promise rejected and local storage holds no
\* access_token.
C5_Axios401ClearsToken ==
    (last.op \in AxiosOps /\ last.status = 401) =>
        /\ last.outcome = "rejected"
        /\ token = Null

\* C5 witness: a 401 answer to an axios call made while a token was stored
C5_Witness ==
    /\ last.op = "me"
    /\ last.status = 401
    /\ last.before = "t1"
    /\ last.outcome = "rejected"
    /\ token = Null

\* C6 (verifyEmail): when verifyEmail is answered with HTTP 401 the stored
\* access_token is removed from local storage.
C6_VerifyEmailClearsTokenOn401 ==
    (last.op = "verifyEmail" /\ last.status = 401) => token = Null

\* C7: a call that failed with anything but a 401 answer (no response, or
\* another error status) left the stored access_token as it was.
C7_OtherFailuresKeepToken ==
    (last.outcome = "rejected" /\ last.status # 401) => token = last.before

\* C7 witness: an axios call failed with HTTP 500 while a token was stored
C7_Witness ==
    /\ last.op \in AxiosOps
    /\ last.outcome = "rejected"
    /\ last.status = 500
    /\ last.before = "t1"
    /\ token = "t1"

\* C9: after login, register or refreshToken the stored token is the
\* access_token of a successful response when that is non-empty, is left
\* as it was when the response carries none, and a failed request stores
\* nothing (the token is as before, or removed).
C9_AuthStoresToken ==
    last.op \in AuthOps =>
        /\ (last.outcome = "resolved" /\ last.access \notin {Undefined, ""})
               => token = last.access
        /\ (last.outcome = "resolved" /\ last.access \in {Undefined, ""})
               => token = last.before
        /\ last.outcome = "rejected" => token \in {last.before, Null}

\* C9 witness: a login replaced the stored token by the one of its response
C9_Witness ==
    /\ last.op = "login"
    /\ last.outcome = "resolved"
    /\ last.before = "t1"
    /\ last.access = "t2"
    /\ token = "t2"

\* C10: every request of the axios client carries Authorization: Bearer t
\* exactly if a token was stored when it was sent, and t is that token.
C10_BearerIffStored ==
    \A r \in Pending(AxiosOps) :
        /\ r.auth # NoAuth <=> r.stored # Null
        /\ r.stored # Null => r.auth = <<"Bearer", r.stored>>

\* C10 witness: a logout has removed the token t1; a request sent before it
\* carries Bearer t1, a request sent after it carries no header
C10_Witness ==
    /\ last.op = "logout"
    /\ last.outcome = "resolved"
    /\ last.before = "t1"
    /\ token = Null
    /\ \E r \in Pending(AxiosOps) : r.stored = Null /\ r.auth = NoAuth
    /\ \E r \in Pending(AxiosOps) : r.stored = "t1" /\ r.auth = <<"Bearer", "t1">>

\* ---------------------------------------------------------------------
\* Properties of the request of sendMessageStream
\* ---------------------------------------------------------------------
\* decodeURIComponent, as the server applies it to a query parameter
RECURSIVE decodeURIComponent(_)
decodeURIComponent(t) ==
    IF t = <<>> THEN <<>>
    ELSE IF Head(t) = "%" /\ Len(t) >= 3
         THEN LET code == <<t[2], t[3]>>
                  c == CASE code = <<"2", "0">> -> " "
                         [] code = <<"2", "6">> -> "&"
                         [] code = <<"2", "3">> -> "#"
                         [] code = <<"2", "5">> -> "%"
                         [] OTHER -> "?"
              IN  <<c>> \o decodeURIComponent(SubSeq(t, 4, Len(t)))
         ELSE <<Head(t)>> \o decodeURIComponent(Tail(t))

\* the URL without its fragment
WithoutFragment(u) ==
    LET i == indexOf(u, <<"#">>) IN IF i = 0 THEN u ELSE SubSeq(u, 1, i - 1)

\* the path of a URL: what precedes the first "?"
UrlPath(u) ==
    LET v == WithoutFragment(u)
        i == indexOf(v, <<"?">>)
    IN  IF i = 0 THEN v ELSE SubSeq(v, 1, i - 1)

\* the query string of a URL: what follows the first "?"
UrlSearch(u) ==
    LET v == WithoutFragment(u)
        i == indexOf(v, <<"?">>)
    IN  IF i = 0 THEN <<>> ELSE SubSeq(v, i + 1, Len(v))

\* the parameters of a query string, as <<name, decoded value>> pairs
RECURSIVE SearchParams(_)
SearchParams(t) ==
    IF t = <<>> THEN <<>>
    ELSE LET i == indexOf(t, <<"&">>)
             one == IF i = 0 THEN t ELSE SubSeq(t, 1, i - 1)
             rest == IF i = 0 THEN <<>> ELSE SubSeq(t, i + 1, Len(t))
             e == indexOf(one, <<"=">>)
             pair == IF e = 0 THEN <<one, <<>>>>
                     ELSE <<SubSeq(one, 1, e - 1),
                            decodeURIComponent(SubSeq(one, e + 1, Len(one)))>>
         IN  <<pair>> \o SearchParams(rest)

\* C14: once fetch has been called, the call has issued exactly one request,
\* to the path /api/chat/stream: a POST whose form has the fields query and
\* image when an image file was given, and otherwise a GET whose only
\* parameter is query, decoding to the query that was passed.
C14_OneRequestSamePath ==
    pc # "start" =>
        /\ Len(requests) = 1
        /\ UrlPath(requests[1].url) = <<StreamPath>>
        /\ imageFile = "file" =>
              /\ requests[1].method = "POST"
              /\ requests[1].form = << <<"query", query>>, <<"image", "file">> >>
              /\ UrlSearch(requests[1].url) = <<>>
        /\ imageFile \in {Null, Undefined} =>
              /\ requests[1].method = "GET"
              /\ requests[1].form = <<>>
              /\ SearchParams(UrlSearch(requests[1].url)) = << <<<<"query">>, query>> >>

\* C14 witness: a call without image whose query holds a reserved character
\* has run to its end
C14_Witness ==
    /\ pc = "resolved"
    /\ imageFile = Undefined
    /\ query = <<"a", "&">>
    /\ Len(requests) = 1
    /\ requests[1].method = "GET"

\* ---------------------------------------------------------------------
\* Properties of the dashboard
\* ---------------------------------------------------------------------

\* C11 (as stated): when the /auth/logout request fails, the stored token
\* is still present and the dashboard does not navigate away.
C11_FailedLogoutKeepsToken ==
    [][DashLogoutRejects => (token' = token /\ route' = route)]_vars

\* C11 (amended): logout itself removes the token only when the request
\* has succeeded; when the request fails the dashboard does not navigate
\* away and the stored token is unchanged, except that a failure with HTTP
\* 401 removes it (response interceptor).
C11_FailedLogoutKeepsTokenUnless401 ==
    [][DashLogoutRejects =>
          /\ route' = route
          /\ last'.outcome = "rejected"
          /\ last'.status # 401 => token' = token
          /\ last'.status = 401 => token' = Null]_vars

\* C11 witness: a logout failed with HTTP 500; the token is still stored
\* and the dashboard is still shown
C11_Witness ==
    /\ last.op = "logout"
    /\ last.outcome = "rejected"
    /\ last.status = 500
    /\ last.before = "t1"
    /\ token = "t1"
    /\ route = "/dashboard"

\* ---------------------------------------------------------------------
\* Properties of WebSocketChat
\* ---------------------------------------------------------------------

\* C12: sendMessage hands the message to the socket exactly if a socket
\* exists and its readyState is OPEN; otherwise nothing is transmitted and
\* the onError callback that connect registered (if any) is invoked with
\* 'WebSocket is not connected'.
C12_SendOnlyWhenOpen ==
    [][WsSendMessage =>
          IF ws # 0 /\ sockets[ws].readyState = "OPEN"
          THEN /\ Len(transmitted') = Len(transmitted) + 1
               /\ transmitted'[Len(transmitted')][1] = ws
               /\ wsLog' = wsLog
          ELSE /\ transmitted' = transmitted
               /\ callbacks.registered =>
                     wsLog' = Append(wsLog, <<"onError", NotConnectedText>>)]_vars

\* C12 witness: one message was refused and reported through onError, and
\* one was transmitted
C12_Witness ==
    /\ ws # 0
    /\ \E i \in DOMAIN wsLog : wsLog[i] = <<"onError", NotConnectedText>>
    /\ Len(transmitted) = 1

\* C13: disconnect() closes the current socket once and forgets it, after
\* which isConnected() is false until the next connect(); a disconnect()
\* without a socket changes nothing; no socket is ever closed twice.
C13_DisconnectIdempotent ==
    /\ [][WsDisconnect =>
            /\ ws' = 0
            /\ ~ isConnected'
            /\ ws # 0 => sockets' = CloseSocket(ws)
            /\ ws = 0 => UNCHANGED <<ws, sockets, callbacks, transmitted, wsLog>>]_vars
    /\ [][(ws = 0 /\ ~ WsConnect) => ~ isConnected']_vars
    /\ [](\A k \in DOMAIN sockets : sockets[k].closeCalls <= 1)

\* C13 witness: after a disconnect of an open socket a second disconnect
\* has been called
C13_Witness ==
    /\ ws = 0
    /\ wsCalls = 3
    /\ Len(sockets) = 1
    /\ sockets[1].closeCalls = 1
    /\ \E i \in DOMAIN wsLog : wsLog[i][1] = "onConnect"

\* ---------------------------------------------------------------------
\* Properties of the ChatBox
\* ---------------------------------------------------------------------
\* no stream is running and no request to the sessions API is awaited
Quiescent ==
    /\ \A k \in DOMAIN submits : submits[k].stream # "pending"
    /\ saves = {}

\* C15: for a user with a stored token, once every stream and every save
\* request has completed (and none of the save requests failed), the
\* messages stored remotely for the current session of the ChatBox equal
\* the displayed list of messages.
C15_RemoteEqualsDisplayed ==
    (/\ Truthy(token)
     /\ Quiescent
     /\ ~saveFailed
     /\ submits # <<>>
     /\ currentSessionId # 0)
    => remote[currentSessionId] = ChatMessagesOf(messages)

\* C16: a conversation that starts with no session sends createChatSession
\* at most once, whatever the number of submits, as long as no request to
\* the sessions API fails, and every update request goes to the session
\* that was created.
C16_CreatesAtMostOnce ==
    ~saveFailed =>
        /\ createCalls <= 1
        /\ \A s \in saves : s.request = "update" => s.id = 1

\* the submits whose stream has neither resolved nor rejected
StreamsInFlight == {k \in DOMAIN submits : submits[k].stream = "pending"}

\* C17: a ChatBox has at most one chat stream in flight at any time.
C17_OneStreamInFlight == Cardinality(StreamsInFlight) <= 1

\* the tokens in order, joined by single spaces
RECURSIVE JoinTokens(_)
JoinTokens(ts) ==
    IF ts = <<>> THEN <<>>
    ELSE IF Len(ts) = 1 THEN ts[1]
    ELSE ts[1] \o <<" ">> \o JoinTokens(Tail(ts))

\* the positions of the message with the given id
PositionsOf(id) == {i \in DOMAIN messages : messages[i].id = id}

\* C18: an accepted submit appends the user message and then one empty bot
\* message and leaves the earlier messages as they were; once the stream of
\* a submit has resolved, the text of its bot message is the received
\* tokens in order joined by single spaces, without leading or trailing
\* whitespace.
C18_AppendsTwoAndJoinsTokens ==
    /\ [][HandleSubmit =>
            /\ Len(messages') = Len(messages) + 2
            /\ SubSeq(messages', 1, Len(messages)) = messages
            /\ ~messages'[Len(messages) + 1].isBot
            /\ messages'[Len(messages) + 2].isBot
            /\ messages'[Len(messages) + 2].text = <<>>
            /\ messages'[Len(messages) + 2].id = submits'[Len(submits')].botMessageId
            /\ PositionsOf(messages'[Len(messages) + 2].id) = {}]_vars
    /\ [](\A k \in DOMAIN submits :
            submits[k].stream = "resolved" =>
                /\ Cardinality(PositionsOf(submits[k].botMessageId)) = 1
                /\ \A i \in PositionsOf(submits[k].botMessageId) :
                       messages[i].text = trim(JoinTokens(submits[k].tokens)))

\* a reply of two tokens has been received and is shown as "a b"
C18_Witness ==
    \E k \in DOMAIN submits :
        /\ submits[k].stream = "resolved"
        /\ submits[k].tokens = <<<<"a">>, <<"b">>>>
        /\ \E i \in PositionsOf(submits[k].botMessageId) :
               messages[i].text = <<"a", " ", "b">>

\* the submits whose stream has resolved
ResolvedSubmits == {k \in DOMAIN submits : submits[k].stream = "resolved"}

\* C19: when the stream of a submit rejects, the bot message of that submit
\* and no other message gets the fixed error text in place of the tokens
\* received so far, and saveSession is not called for that submit: no
\* create or update request is sent to the sessions API.
C19_RejectShowsErrorAndSavesNothing ==
    /\ [][\A k \in 1..MaxSubmits :
            StreamRejects(k) =>
                /\ Len(messages') = Len(messages)
                /\ \A i \in DOMAIN messages :
                       IF messages[i].id = submits[k].botMessageId
                       THEN /\ messages'[i].text = ErrorText
                            /\ messages'[i].id = messages[i].id
                            /\ messages'[i].isBot
                       ELSE messages'[i] = messages[i]
                /\ Cardinality(PositionsOf(submits[k].botMessageId)) = 1
                /\ saves' = saves
                /\ createCalls' = createCalls
                /\ updateCalls' = updateCalls]_vars
    /\ [](\A s \in saves : s.submit \in ResolvedSubmits)
    /\ [](createCalls + updateCalls <= 2 * Cardinality(ResolvedSubmits))

\* a stream has rejected after a token, for a user with a stored token: the
\* error text is shown and nothing was sent to the sessions API
C19_Witness ==
    \E k \in DOMAIN submits :
        /\ submits[k].stream = "rejected"
        /\ submits[k].tokens # <<>>
        /\ Truthy(token)
        /\ \E i \in PositionsOf(submits[k].botMessageId) :
               messages[i].text = ErrorText
        /\ createCalls + updateCalls = 0

PageQuiescent ==
    /\ Quiescent
    /\ loads = {}
    /\ deletes = {}

\* C21: after the New Chat action of the sidebar, used while nothing is
\* awaited, the ChatBox shows only the default greeting and its
\* currentSessionId is null, whatever session it was bound to before.
C21_NewChatResets ==
    [][(PageQuiescent /\ HandleNewChat) =>
          /\ messages' = <<DefaultMessage>>
          /\ currentSessionId' = 0]_vars

\* C22: after a session has been selected in the sidebar (with no submit
\* and no clearChat), once every load has completed, the currentSessionId
\* of the ChatBox is the session selected last and the messages shown are
\* the messages of that session, or the default greeting if its load
\* failed, whatever the order in which the answers arrived.
C22_ShowsLastSelected ==
    (/\ submits = <<>>
     /\ ~everCleared
     /\ PageQuiescent
     /\ pageCurrentSessionId \in LiveSessions)
    => /\ currentSessionId = pageCurrentSessionId
       /\ \/ messages = LoadedMessages(remote[pageCurrentSessionId])
          \/ messages = <<DefaultMessage>>

\* C23: the currentSessionId of the ChatPage and the currentSessionId of
\* the ChatBox are equal in every state in which nothing is awaited.
C23_PageAndBoxAgree ==
    PageQuiescent => pageCurrentSessionId = currentSessionId

====
